---- MODULE Spec2Model ----
(***************************************************************************)
(* autotss: one program execution (Autotss.__init__) locates tsschecker,   *)
(* fetches the firmware catalog, imports devices.ini into the devices      *)
(* table, walks every (device, signed firmware) pair through save_blobs    *)
(* and writes the devices back.  The model is the sequence of program      *)
(* executions over one sqlite table and one blobs/ directory.              *)
(*                                                                         *)
(* Text is modelled with TLC strings; a text that the code scans (an ini   *)
(* identifier, a line of tsschecker output) is a sequence of pieces, the   *)
(* pieces " " and "\n" being its whitespace.                               *)
(***************************************************************************)
EXTENDS Integers, Sequences, FiniteSets, TLC

\* ------------------------------------------------------------- bounds

\* Longest "firmwares" list of a device type in the catalog response.
MaxFirmwares == 2
\* Most sections in devices.ini.
MaxSections == 2

\* ------------------------------------------------------- text helpers

Whitespace == {" ", "\n"}

\* ''.join(pieces)
RECURSIVE Concat(_)
Concat(pieces) ==
    IF pieces = <<>> THEN "" ELSE Head(pieces) \o Concat(Tail(pieces))

\* sep.join(strings)
RECURSIVE Join(_, _)
Join(sep, strings) ==
    IF strings = <<>> THEN ""
    ELSE IF Len(strings) = 1 THEN strings[1]
    ELSE strings[1] \o sep \o Join(sep, Tail(strings))

\* str.strip(): leading and trailing whitespace removed
RECURSIVE LStrip(_)
LStrip(pieces) ==
    IF pieces # <<>> /\ Head(pieces) \in Whitespace
    THEN LStrip(Tail(pieces)) ELSE pieces

RECURSIVE RStrip(_)
RStrip(pieces) ==
    IF pieces # <<>> /\ pieces[Len(pieces)] \in Whitespace
    THEN RStrip(SubSeq(pieces, 1, Len(pieces) - 1)) ELSE pieces

Strip(pieces) == Concat(RStrip(LStrip(pieces)))

\* str.replace(' ', '')
RemoveSpaces(pieces) == Concat(SelectSeq(pieces, LAMBDA p : p # " "))

\* str.lower() on the board configurations that occur
Lower(s) == CASE s = "N71AP" -> "n71ap"
              [] s = "J71AP" -> "j71ap"
              [] OTHER -> s

\* All sequences over S of length at most n.
RECURSIVE SeqsUpTo(_, _)
SeqsUpTo(S, n) ==
    IF n = 0 THEN {<<>>}
    ELSE LET shorter == SeqsUpTo(S, n - 1)
         IN  shorter \cup {Append(q, e) : q \in shorter, e \in S}

Range(q) == {q[k] : k \in 1..Len(q)}

\* --------------------------------------------------------------- JSON
\* blobsSaved is kept as JSON text.  A JSON object is modelled as the
\* sequence of its <<key, value>> members in the order dumps writes them,
\* a JSON array as the sequence of its objects; '[]' is the empty array.

Member(obj, key) == (CHOOSE m \in Range(obj) : m[1] = key)[2]

\* Faulty variant: version number and build id change places in the record.
BlobRecordSwapped(version_number, build_id) ==
    [releaseType |-> "release", versionNumber |-> build_id, buildID |-> version_number]

\* the dict log_blobs_saved builds
BlobRecord(version_number, build_id) ==
    [releaseType |-> "release", versionNumber |-> version_number, buildID |-> build_id]

dumps(entries) ==
    [k \in 1..Len(entries) |->
        << <<"releaseType", entries[k].releaseType>>,
           <<"versionNumber", entries[k].versionNumber>>,
           <<"buildID", entries[k].buildID>> >>]

loads(text) ==
    [k \in 1..Len(text) |->
        [releaseType |-> Member(text[k], "releaseType"),
         versionNumber |-> Member(text[k], "versionNumber"),
         buildID |-> Member(text[k], "buildID")]]

EmptyJSON == dumps(<<>>)

\* ------------------------------------------------- the catalog service
\* The body of https://api.ipsw.me/v2.1/firmwares.json/condensed under
\* 'devices': device type -> {BoardConfig, firmwares: [{buildid, version,
\* signed}]}.

PhoneID == "iPhone8,1"
PadID == "iPad6,3"

PhoneBuilds == {"B100", "B101"}
PadBuild == "B200"

VersionOf(build) == CASE build = "B100" -> "14.0"
                      [] build = "B101" -> "14.1"
                      [] OTHER -> "14.0"

Firmware(build, signed) ==
    [buildid |-> build, version |-> VersionOf(build), signed |-> signed]

\* Entries of the phone type: both builds signed, the newer one also as an
\* entry that is no longer signed.
PhoneFirmwares ==
    {Firmware(b, TRUE) : b \in PhoneBuilds} \cup {Firmware("B101", FALSE)}

PhoneFirmwareLists == SeqsUpTo(PhoneFirmwares, MaxFirmwares)

PhoneEntry(fws) == [BoardConfig |-> "n71ap", firmwares |-> fws]
PadEntry == [BoardConfig |-> "j71ap", firmwares |-> <<Firmware(PadBuild, TRUE)>>]

\* What the service answers: no usable response (the request or its decoding
\* raises), or the 'devices' object: the phone type with any firmware list,
\* the pad type listed or unknown to the service.
Response(ok, device_api) == [ok |-> ok, devices |-> device_api]

NoApi == [d \in {} |-> PadEntry]

Catalogs ==
    {Response(FALSE, NoApi)}
    \cup {Response(TRUE, [d \in {PhoneID} |-> PhoneEntry(fws)]) : fws \in PhoneFirmwareLists}
    \cup {Response(TRUE, [d \in {PhoneID, PadID} |->
                            IF d = PhoneID THEN PhoneEntry(fws) ELSE PadEntry]) :
            fws \in PhoneFirmwareLists}

\* Faulty variant: the test of 'signed' is lost and every entry is kept.
KeepAllFirmwares(firmwares) == firmwares

\* Faulty variant: signed entries are put at the front of the new list.
RECURSIVE SignedFirmwaresReversed(_)
SignedFirmwaresReversed(firmwares) ==
    IF firmwares = <<>> THEN <<>>
    ELSE IF Head(firmwares).signed
         THEN SignedFirmwaresReversed(Tail(firmwares)) \o <<Head(firmwares)>>
         ELSE SignedFirmwaresReversed(Tail(firmwares))

\* get_firmware_api, the loop of lines 99-104: each firmwares list is
\* replaced by the list of its signed entries, appended in source order.
RECURSIVE SignedFirmwares(_)
SignedFirmwares(firmwares) ==
    IF firmwares = <<>> THEN <<>>
    ELSE IF Head(firmwares).signed
         THEN <<Head(firmwares)>> \o SignedFirmwares(Tail(firmwares))
         ELSE SignedFirmwares(Tail(firmwares))

FilterSigned(device_api) ==
    [device_id \in DOMAIN device_api |->
        [BoardConfig |-> device_api[device_id].BoardConfig,
         firmwares |-> SignedFirmwares(device_api[device_id].firmwares)]]

\* ---------------------------------------------------------- devices.ini
\* A section has a name and options; config.get raises NoOptionError for an
\* option the section lacks.  The identifier is given in pieces so that the
\* spaces the code removes are visible.

Section(name, options) == [name |-> name, options |-> options]

PhoneSection ==
    Section("phone", [o \in {"identifier", "ecid", "boardconfig"} |->
        CASE o = "identifier" -> <<"iPhone", " ", "8,1">>
          [] o = "ecid" -> <<"E1">>
          [] OTHER -> <<"N71AP">>])

SpareSection ==
    Section("spare", [o \in {"identifier", "ecid"} |->
        CASE o = "identifier" -> <<"iPhone8,1">>
          [] OTHER -> <<"E1">>])

PadSection ==
    Section("pad", [o \in {"identifier", "ecid", "boardconfig"} |->
        CASE o = "identifier" -> <<"iPad6,3">>
          [] o = "ecid" -> <<"E2">>
          [] OTHER -> <<"J71AP">>])

TabletSection ==
    Section("tablet", [o \in {"identifier", "ecid"} |->
        CASE o = "identifier" -> <<"iPad6,3">>
          [] OTHER -> <<"E2">>])

BrokenSection ==
    Section("broken", [o \in {"identifier"} |-> <<"iPhone8,1">>])

Sections == {PhoneSection, SpareSection, PadSection, TabletSection, BrokenSection}

\* ConfigParser refuses a file that repeats a section name, so the sections
\* of a file have different names.
DistinctNames(secs) ==
    \A a, b \in 1..Len(secs) : a # b => secs[a].name # secs[b].name

\* devices.ini: absent, or its sections in file order.
IniFiles ==
    {[isfile |-> FALSE, sections |-> <<>>]}
    \cup {[isfile |-> TRUE, sections |-> secs] :
            secs \in {q \in SeqsUpTo(Sections, MaxSections) : DistinctNames(q)}}

\* ----------------------------------------------------------- tsschecker
\* What the operator's machine offers: the -p/--path argument ("" when not
\* given), whether that path is a file, whether the binary can be started,
\* and the version number its first output line ends with.

UserPath == "./tsschecker_linux"

MinVersion == 247

Tool(p, f, s, v) == [path |-> p, isfile |-> f, starts |-> s, version |-> v]

Tools ==
    {Tool("", FALSE, TRUE, MinVersion), Tool("", FALSE, TRUE, MinVersion - 1),
     Tool("", FALSE, FALSE, MinVersion),
     Tool(UserPath, TRUE, TRUE, MinVersion), Tool(UserPath, TRUE, TRUE, MinVersion - 1),
     Tool(UserPath, TRUE, FALSE, MinVersion), Tool(UserPath, FALSE, FALSE, MinVersion)}

SavedMarker == "Saved shsh blobs!"

\* Raw stdout of one tsschecker call, line by line.
OutSaved == << <<"[TSSC] got firmware", "\n">>, <<" ", SavedMarker, "\n">> >>
OutError == << <<"[Error] TSS request failed, no ", SavedMarker, "\n">>, <<"\n">> >>

Outputs == {OutSaved, OutError}

\* ------------------------------------------------------------------ state

VARIABLES
    catalog,            \* what the catalog service answers
    ini,                \* devices.ini
    tool,               \* the tsschecker installation and the -p argument
    db,                 \* rows of table 'devices' of autotss.db, in insertion order
    files,              \* blobs/.../tsschecker_log.txt: path -> content
    dirs,               \* directories made under blobs/
    pc,                 \* where the running execution stands, or how it ended
    script_path,        \* self.script_path
    live_firmware_api,  \* self.live_firmware_api
    devices,            \* self.devices
    di,                 \* check_all_devices: index of the device being visited
    fi,                 \* check_all_devices: index of its firmware being visited
    calls,              \* tsschecker calls of this execution, in order
    last,               \* outcome of the latest save_blobs call
    prev                \* how the previous execution ended

vars == <<catalog, ini, tool, db, files, dirs, pc, script_path, live_firmware_api,
          devices, di, fi, calls, last, prev>>

env == <<catalog, ini, tool>>
store == <<db, files, dirs>>
memory == <<script_path, live_firmware_api, devices, di, fi>>

NoFiles == [p \in {} |-> ""]
NoCall == [kind |-> "none", ecid |-> "", buildid |-> "", path |-> "", arguments |-> <<>>, output |-> <<>>]
NoPrev == [pc |-> "none", db |-> <<>>, failed |-> {}]

\* An execution has ended: normally, by exit(), or by an uncaught exception.
Ended == {"done", "exit", "raised"}

\* The exit status of an ended execution: exit() without argument and a
\* normal end give 0, a traceback gives 1.
ExitStatus == IF pc = "raised" THEN 1 ELSE 0

\* ------------------------------------------------------- the devices table

\* db.find_one(deviceECID=ecid): the matching rows (none: find_one gives None)
RowsOf(database, ecid) == {k \in 1..Len(database) : database[k].deviceECID = ecid}

find_one(database, ecid) ==
    database[CHOOSE k \in RowsOf(database, ecid) : \A m \in RowsOf(database, ecid) : k <= m]

\* db.insert(row)
insert(database, row) == Append(database, row)

\* db.update(row, ['deviceECID']): every row with that ECID takes the other
\* columns of row; no row is added when none matches.
update(database, row) ==
    [k \in 1..Len(database) |->
        IF database[k].deviceECID = row.deviceECID THEN row ELSE database[k]]

\* ------------------------------------------------------ import_new_devices

HasOption(section, option) == option \in DOMAIN section.options

\* config.get(section, option)
Get(section, option) == Concat(section.options[option])

\* lines 42-45: a missing boardconfig reads as ''
BoardConfigOption(section) ==
    IF HasOption(section, "boardconfig") THEN Lower(Get(section, "boardconfig")) ELSE ""

Identifier(section) == RemoveSpaces(section.options["identifier"])

\* get_board_config(device_id): KeyError for a type the catalog lacks
BoardConfigKnown(api, device_id) == device_id \in DOMAIN api
get_board_config(api, device_id) == api[device_id].BoardConfig

\* The exception reading one section raises, "" when it raises none.
SectionError(section, api) ==
    IF ~HasOption(section, "identifier") \/ ~HasOption(section, "ecid") THEN "NoOptionError"
    ELSE IF BoardConfigOption(section) = "" /\ ~BoardConfigKnown(api, Identifier(section))
         THEN "KeyError"
         ELSE ""

\* lines 49-51: the candidate row of one section
Candidate(section, api) ==
    [deviceName |-> section.name,
     deviceID |-> Identifier(section),
     boardConfig |-> IF BoardConfigOption(section) = ""
                     THEN get_board_config(api, Identifier(section))
                     ELSE BoardConfigOption(section),
     deviceECID |-> Get(section, "ecid"),
     blobsSaved |-> EmptyJSON]

\* lines 34-53: new_devices, or the first exception
ParseError(file, api) ==
    IF \E k \in 1..Len(file.sections) : SectionError(file.sections[k], api) # ""
    THEN SectionError(file.sections[CHOOSE k \in 1..Len(file.sections) :
                        /\ SectionError(file.sections[k], api) # ""
                        /\ \A m \in 1..(k - 1) : SectionError(file.sections[m], api) = ""], api)
    ELSE ""

new_devices(file, api) ==
    IF file.isfile THEN [k \in 1..Len(file.sections) |-> Candidate(file.sections[k], api)]
    ELSE <<>>

\* Faulty variant: a candidate whose ECID is stored replaces the stored row.
RECURSIVE AddNewUpsert(_, _)
AddNewUpsert(database, candidates) ==
    IF candidates = <<>> THEN database
    ELSE IF RowsOf(database, Head(candidates).deviceECID) = {}
         THEN AddNewUpsert(insert(database, Head(candidates)), Tail(candidates))
         ELSE AddNewUpsert(update(database, Head(candidates)), Tail(candidates))

\* Faulty variant: the candidates are compared with the table as it was before the
\* first insert.
AddNewStale(database, candidates) ==
    database \o SelectSeq(candidates, LAMBDA c : RowsOf(database, c.deviceECID) = {})

\* lines 56-60: each candidate is inserted unless a row has its ECID already
RECURSIVE AddNew(_, _)
AddNew(database, candidates) ==
    IF candidates = <<>> THEN database
    ELSE IF RowsOf(database, Head(candidates).deviceECID) = {}
         THEN AddNew(insert(database, Head(candidates)), Tail(candidates))
         ELSE AddNew(database, Tail(candidates))

\* ------------------------------------------------------------- save_blobs

\* Faulty variant: the scan compares the version number of the record.
check_for_blobs_by_version(database, device_ecid, build_id) ==
    LET device_info == find_one(database, device_ecid)
    IN  \E k \in 1..Len(loads(device_info.blobsSaved)) :
            loads(device_info.blobsSaved)[k].versionNumber = build_id

\* check_for_blobs(device_ecid, build_id): reads the row of table 'devices'
\* and scans its blobsSaved.
check_for_blobs(database, device_ecid, build_id) ==
    LET device_info == find_one(database, device_ecid)
    IN  \E k \in 1..Len(loads(device_info.blobsSaved)) :
            loads(device_info.blobsSaved)[k].buildID = build_id

\* line 137
SavePath(device, build_id, version_number) ==
    "blobs/" \o device.deviceID \o "/" \o device.deviceECID \o "/" \o version_number
        \o "/" \o build_id

\* lines 141-147
ScriptArguments(path, device, build_id, save_path) ==
    <<path, "-d", device.deviceID, "-e", device.deviceECID,
      "--boardconfig", device.boardConfig, "--buildid", build_id,
      "--save-path", save_path, "-s">>

\* lines 151-153: every line of stdout, stripped
TssOutput(raw) == [k \in 1..Len(raw) |-> Strip(raw[k])]

\* line 160
BlobsSaved(tss_output) == SavedMarker \in Range(tss_output)

\* Faulty variant: the new record replaces the history instead of joining it.
log_blobs_saved_overwrite(device, build_id, version_number) ==
    [device EXCEPT !.blobsSaved = dumps(<<BlobRecord(version_number, build_id)>>)]

\* log_blobs_saved: the device dict of self.devices gets the record appended
log_blobs_saved(device, build_id, version_number) ==
    [device EXCEPT !.blobsSaved =
        dumps(Append(loads(device.blobsSaved), BlobRecord(version_number, build_id)))]

\* Faulty variant: the log holds the captured output only.
LogTextOutputOnly(script_arguments, tss_output) == Join("\n", tss_output)

\* log_blobs_failed: the text written to save_path/tsschecker_log.txt
LogText(script_arguments, tss_output) ==
    Join(" ", script_arguments) \o "\n\n" \o Join("\n", tss_output)

LogPath(save_path) == save_path \o "/tsschecker_log.txt"

WriteFile(fs, path, text) ==
    [p \in DOMAIN fs \cup {path} |-> IF p = path THEN text ELSE fs[p]]

\* ---------------------------------------------------------------- actions

Init ==
    /\ catalog \in Catalogs
    /\ ini \in IniFiles
    /\ tool \in Tools
    /\ db = <<>>
    /\ files = NoFiles
    /\ dirs = {}
    /\ pc = "start"
    /\ script_path = ""
    /\ live_firmware_api = NoApi
    /\ devices = <<>>
    /\ di = 1
    /\ fi = 1
    /\ calls = <<>>
    /\ last = NoCall
    /\ prev = NoPrev

\* Faulty variant: tsschecker is taken as it comes, no check leads to exit().
get_script_path_unchecked ==
    /\ pc = "start"
    /\ pc' = "get_firmware_api"
    /\ script_path' = IF tool.path # "" THEN tool.path ELSE "tsschecker"
    /\ UNCHANGED <<env, store, live_firmware_api, devices, di, fi, calls, last, prev>>

\* Faulty variant: the constructor goes from the tsschecker check straight
\* to the import.
get_script_path_then_import ==
    /\ pc = "start"
    /\ LET path == IF tool.path # "" THEN tool.path ELSE "tsschecker"
           ok == /\ tool.path # "" => tool.isfile
                 /\ tool.starts
                 /\ ~(tool.version < MinVersion)
       IN  /\ pc' = IF ok THEN "import_new_devices" ELSE "exit"
           /\ script_path' = IF ok THEN path ELSE script_path
    /\ UNCHANGED <<env, store, live_firmware_api, devices, di, fi, calls, last, prev>>

\* get_script_path: leaves by exit() when the given path is no file, when
\* tsschecker cannot be started or when it is older than MinVersion.
get_script_path ==
    /\ pc = "start"
    /\ LET path == IF tool.path # "" THEN tool.path ELSE "tsschecker"
           ok == /\ tool.path # "" => tool.isfile
                 /\ tool.starts
                 /\ ~(tool.version < MinVersion)
       IN  /\ pc' = IF ok THEN "get_firmware_api" ELSE "exit"
           /\ script_path' = IF ok THEN path ELSE script_path
    /\ UNCHANGED <<env, store, live_firmware_api, devices, di, fi, calls, last, prev>>

\* get_firmware_api: the request or the decoding of its body raises
FetchFails ==
    /\ pc = "get_firmware_api"
    /\ ~catalog.ok
    /\ pc' = "raised"
    /\ UNCHANGED <<env, store, memory, calls, last, prev>>

get_firmware_api ==
    /\ pc = "get_firmware_api"
    /\ catalog.ok
    /\ live_firmware_api' = FilterSigned(catalog.devices)
    /\ pc' = "import_new_devices"
    /\ UNCHANGED <<env, store, script_path, devices, di, fi, calls, last, prev>>

\* Faulty variant: each candidate is inserted as soon as its section is read,
\* so the sections before an unreadable one are in the table when it raises.
import_new_devices_eager ==
    /\ pc = "import_new_devices"
    /\ IF ParseError(ini, live_firmware_api) # ""
       THEN LET bad == CHOOSE k \in 1..Len(ini.sections) :
                          /\ SectionError(ini.sections[k], live_firmware_api) # ""
                          /\ \A m \in 1..(k - 1) :
                                SectionError(ini.sections[m], live_firmware_api) = ""
            IN  /\ pc' = "raised"
                /\ db' = AddNew(db, [k \in 1..(bad - 1) |->
                                        Candidate(ini.sections[k], live_firmware_api)])
       ELSE /\ pc' = "check_all_devices"
            /\ db' = AddNew(db, new_devices(ini, live_firmware_api))
    /\ UNCHANGED <<env, files, dirs, memory, calls, last, prev>>

\* import_new_devices: every section is read before the first insert, so an
\* exception leaves the table as it was.
import_new_devices ==
    /\ pc = "import_new_devices"
    /\ IF ParseError(ini, live_firmware_api) # ""
       THEN /\ pc' = "raised"
            /\ db' = db
       ELSE /\ pc' = "check_all_devices"
            /\ db' = AddNew(db, new_devices(ini, live_firmware_api))
    /\ UNCHANGED <<env, files, dirs, memory, calls, last, prev>>

\* check_all_devices, lines 113-117: the rows are read into self.devices
check_all_devices ==
    /\ pc = "check_all_devices"
    /\ devices' = db
    /\ di' = 1
    /\ fi' = 1
    /\ pc' = "loop"
    /\ UNCHANGED <<env, store, script_path, live_firmware_api, calls, last, prev>>

InLoop == pc = "loop" /\ di <= Len(devices)
TypeKnown == devices[di].deviceID \in DOMAIN live_firmware_api
Firmwares == live_firmware_api[devices[di].deviceID].firmwares

\* Faulty variant: the snapshot is stored before the exception leaves the loop.
LoopKeyErrorFlush ==
    /\ InLoop /\ ~TypeKnown
    /\ pc' = "raised"
    /\ db' = devices
    /\ UNCHANGED <<env, files, dirs, memory, calls, last, prev>>

\* line 121: self.live_firmware_api[device['deviceID']] raises KeyError
LoopKeyError ==
    /\ InLoop /\ ~TypeKnown
    /\ pc' = "raised"
    /\ UNCHANGED <<env, store, memory, calls, last, prev>>

\* the inner loop is exhausted: on to the next device
NextDevice ==
    /\ InLoop /\ TypeKnown /\ fi > Len(Firmwares)
    /\ di' = di + 1
    /\ fi' = 1
    /\ UNCHANGED <<env, store, pc, script_path, live_firmware_api, devices, calls, last, prev>>

\* save_blobs returning at line 135
SaveBlobsSkip ==
    /\ InLoop /\ TypeKnown /\ fi <= Len(Firmwares)
    /\ LET device == devices[di]
           build_id == Firmwares[fi].buildid
       IN  /\ check_for_blobs(db, device.deviceECID, build_id)
           /\ last' = [kind |-> "AlreadySaved", ecid |-> device.deviceECID,
                       buildid |-> build_id, path |-> "", arguments |-> <<>>,
                       output |-> <<>>]
    /\ fi' = fi + 1
    /\ UNCHANGED <<env, store, pc, script_path, live_firmware_api, devices, di, calls, prev>>

\* save_blobs from line 137 on: tsschecker is called and answers raw
SaveBlobsCall(raw) ==
    /\ InLoop /\ TypeKnown /\ fi <= Len(Firmwares)
    /\ LET device == devices[di]
           build_id == Firmwares[fi].buildid
           version_number == Firmwares[fi].version
           save_path == SavePath(device, build_id, version_number)
           script_arguments == ScriptArguments(script_path, device, build_id, save_path)
           tss_output == TssOutput(raw)
           saved == BlobsSaved(tss_output)
       IN  /\ ~check_for_blobs(db, device.deviceECID, build_id)
           /\ dirs' = dirs \cup {save_path}
           /\ IF saved
              THEN /\ devices' = [devices EXCEPT
                          ![di] = log_blobs_saved(device, build_id, version_number)]
                   /\ files' = files
              ELSE /\ files' = WriteFile(files, LogPath(save_path),
                                         LogText(script_arguments, tss_output))
                   /\ devices' = devices
           /\ calls' = Append(calls, [ecid |-> device.deviceECID,
                                      deviceID |-> device.deviceID,
                                      buildid |-> build_id,
                                      saved |-> saved])
           /\ last' = [kind |-> IF saved THEN "Saved" ELSE "Failed",
                       ecid |-> device.deviceECID, buildid |-> build_id,
                       path |-> save_path, arguments |-> script_arguments,
                       output |-> tss_output]
    /\ fi' = fi + 1
    /\ UNCHANGED <<env, db, pc, script_path, live_firmware_api, di, prev>>

save_blobs == SaveBlobsSkip \/ \E raw \in Outputs : SaveBlobsCall(raw)

\* line 124: every device has been visited
LoopEnd ==
    /\ pc = "loop" /\ di > Len(devices)
    /\ pc' = "push_to_database"
    /\ UNCHANGED <<env, store, memory, calls, last, prev>>

\* Faulty variant: the loop is left after the first device.
UpdateHead(database, rows) ==
    IF rows = <<>> THEN database ELSE update(database, Head(rows))

\* push_to_database: every device of self.devices is written back by ECID
RECURSIVE UpdateAll(_, _)
UpdateAll(database, rows) ==
    IF rows = <<>> THEN database
    ELSE UpdateAll(update(database, Head(rows)), Tail(rows))

push_to_database ==
    /\ pc = "push_to_database"
    /\ db' = UpdateAll(db, devices)
    /\ pc' = "done"
    /\ UNCHANGED <<env, files, dirs, memory, calls, last, prev>>

\* The pairs tsschecker was called for in this execution, by result.
Pairs(result) ==
    {<<calls[k].ecid, calls[k].buildid>> : k \in {m \in 1..Len(calls) : calls[m].saved = result}}

\* The program is started again: a new process, the same table and files.
Restart ==
    /\ pc \in Ended
    /\ prev' = [pc |-> pc, db |-> db, failed |-> Pairs(FALSE)]
    /\ pc' = "start"
    /\ script_path' = ""
    /\ live_firmware_api' = NoApi
    /\ devices' = <<>>
    /\ di' = 1
    /\ fi' = 1
    /\ calls' = <<>>
    /\ last' = NoCall
    /\ UNCHANGED <<env, store>>

Next ==
    \/ get_script_path
    \/ FetchFails
    \/ get_firmware_api
    \/ import_new_devices
    \/ check_all_devices
    \/ LoopKeyError
    \/ NextDevice
    \/ save_blobs
    \/ LoopEnd
    \/ push_to_database
    \/ Restart

Spec == Init /\ [][Next]_vars

\* --- the registration file is edited between executions

\* Catalogs whose phone type has no firmware: the archive work is that of
\* the pad alone.
QuietCatalogs == {c \in Catalogs : c.ok => c.devices[PhoneID].firmwares = <<>>}

DefaultTool == Tool("", FALSE, TRUE, MinVersion)

InitImport ==
    /\ Init
    /\ catalog \in QuietCatalogs
    /\ tool = DefaultTool

EditIni ==
    /\ pc \in Ended
    /\ ini' \in IniFiles \ {ini}
    /\ UNCHANGED <<catalog, tool, store, pc, memory, calls, last, prev>>

NextImport == Next \/ EditIni

SpecImport == InitImport /\ [][NextImport]_vars

\* --- get_firmware_api alone, over responses with every mix of signed and
\* unsigned entries

AnyFirmwareLists(builds) ==
    SeqsUpTo({Firmware(b, s) : b \in builds, s \in BOOLEAN}, MaxFirmwares)

AnyCatalogs ==
    {Response(FALSE, NoApi)}
    \cup {Response(TRUE, [d \in {PhoneID} |-> PhoneEntry(fws)]) :
            fws \in AnyFirmwareLists(PhoneBuilds)}
    \cup {Response(TRUE, [d \in {PhoneID, PadID} |->
                            IF d = PhoneID THEN PhoneEntry(fws)
                            ELSE [BoardConfig |-> "j71ap", firmwares |-> pads]]) :
            fws \in AnyFirmwareLists(PhoneBuilds), pads \in AnyFirmwareLists({PadBuild})}

InitFetch ==
    /\ catalog \in AnyCatalogs
    /\ ini = [isfile |-> FALSE, sections |-> <<>>]
    /\ tool = DefaultTool
    /\ db = <<>>
    /\ files = NoFiles
    /\ dirs = {}
    /\ pc = "start"
    /\ script_path = ""
    /\ live_firmware_api = NoApi
    /\ devices = <<>>
    /\ di = 1
    /\ fi = 1
    /\ calls = <<>>
    /\ last = NoCall
    /\ prev = NoPrev

NextFetch == get_script_path \/ FetchFails \/ get_firmware_api

SpecFetch == InitFetch /\ [][NextFetch]_vars

\* --- push_to_database alone, over any table and any snapshot: autotss.db
\* is a file of its own, and the rows it holds when self.devices is written
\* back need not be the rows self.devices was read from.

FullCatalog == [d \in {PhoneID, PadID} |-> IF d = PhoneID THEN PhoneEntry(<<>>) ELSE PadEntry]

Histories == {EmptyJSON, dumps(<<BlobRecord(VersionOf("B100"), "B100")>>)}

DeviceRows ==
    {[Candidate(section, FullCatalog) EXCEPT !.blobsSaved = history] :
        section \in {PhoneSection, PadSection}, history \in Histories}

DistinctECIDs(rows) ==
    \A a, b \in 1..Len(rows) : a # b => rows[a].deviceECID # rows[b].deviceECID

Tables == {q \in SeqsUpTo(DeviceRows, MaxSections) : DistinctECIDs(q)}

InitPush ==
    /\ catalog = Response(TRUE, FullCatalog)
    /\ ini = [isfile |-> FALSE, sections |-> <<>>]
    /\ tool = DefaultTool
    /\ db \in Tables
    /\ files = NoFiles
    /\ dirs = {}
    /\ pc = "push_to_database"
    /\ script_path = "tsschecker"
    /\ live_firmware_api = FilterSigned(FullCatalog)
    /\ devices \in Tables
    /\ di = Len(devices) + 1
    /\ fi = 1
    /\ calls = <<>>
    /\ last = NoCall
    /\ prev = NoPrev

\* push_to_database is called once more with the same self.devices
PushAgain ==
    /\ pc = "done"
    /\ prev.pc = "none"
    /\ prev' = [pc |-> "done", db |-> db, failed |-> {}]
    /\ pc' = "push_to_database"
    /\ UNCHANGED <<env, store, memory, calls, last>>

NextPush == push_to_database \/ PushAgain

SpecPush == InitPush /\ [][NextPush]_vars

\* ----------------------------------------------------------------- claims

\* The buildIDs of a blobsSaved text, in order.
BuildIDs(text) == [k \in 1..Len(loads(text)) |-> loads(text)[k].buildID]

NoRepeat(q) == \A a, b \in 1..Len(q) : a # b => q[a] # q[b]

\* C1: no device's saved-blob history, in self.devices or in the table,
\* holds two records with the same buildID.
C1_NoDuplicateBuildID ==
    /\ \A k \in 1..Len(db) : NoRepeat(BuildIDs(db[k].blobsSaved))
    /\ \A k \in 1..Len(devices) : NoRepeat(BuildIDs(devices[k].blobsSaved))

\* save_blobs is about to be called for the pair (devices[di], Firmwares[fi]).
AtPair == InLoop /\ TypeKnown /\ fi <= Len(Firmwares)

\* C2: when save_blobs is called for a pair whose buildID is already in the
\* history archival appends to (blobsSaved of the device in self.devices),
\* tsschecker is not called, no file or directory is written and no history
\* changes.
C2_DedupOnHistory ==
    [][(AtPair /\ Firmwares[fi].buildid \in Range(BuildIDs(devices[di].blobsSaved)))
         => (calls' = calls /\ files' = files /\ dirs' = dirs
             /\ devices' = devices /\ db' = db)]_vars

\* C3: tsschecker is never called for a pair whose buildID is in the device's
\* persisted history, and a pair is archived (its call ends Saved) only when
\* no record of that buildID was appended for the device before: once, over
\* all executions.
C3_ArchivedOnce ==
    [][Len(calls') > Len(calls)
         => /\ Firmwares[fi].buildid \notin
                  Range(BuildIDs(find_one(db, devices[di].deviceECID).blobsSaved))
            /\ calls'[Len(calls')].saved
                  => Firmwares[fi].buildid \notin Range(BuildIDs(devices[di].blobsSaved))]_vars

\* A step in which tsschecker was called and its captured output lacks the
\* confirmation line.
FailedCall ==
    /\ Len(calls') > Len(calls)
    /\ SavedMarker \notin Range(last'.output)

\* The output path of the pair being visited, and the command line of its call.
PairPath ==
    "blobs/" \o devices[di].deviceID \o "/" \o devices[di].deviceECID \o "/"
        \o Firmwares[fi].version \o "/" \o Firmwares[fi].buildid

PairCommand ==
    script_path \o " -d " \o devices[di].deviceID \o " -e " \o devices[di].deviceECID
        \o " --boardconfig " \o devices[di].boardConfig
        \o " --buildid " \o Firmwares[fi].buildid
        \o " --save-path " \o PairPath \o " -s"

\* C4: a call whose captured output lacks the line 'Saved shsh blobs!' leaves
\* tsschecker_log.txt under the pair's output path, holding the space-joined
\* arguments, an empty line and the captured lines; no history changes and
\* the loop goes on with the next firmware.
C4_FailureIsLogged ==
    [][FailedCall
         => /\ (PairPath \o "/tsschecker_log.txt") \in DOMAIN files'
            /\ files'[PairPath \o "/tsschecker_log.txt"]
                  = PairCommand \o "\n\n" \o Join("\n", last'.output)
            /\ \A p \in DOMAIN files : p # PairPath \o "/tsschecker_log.txt" => files'[p] = files[p]
            /\ devices' = devices
            /\ db' = db
            /\ pc' = "loop" /\ di' = di /\ fi' = fi + 1]_vars

\* C4 witness: a failed call has just been logged and the loop stands at the
\* next firmware of the same device.
C4_Witness ==
    /\ pc = "loop"
    /\ last.kind = "Failed"
    /\ (last.path \o "/tsschecker_log.txt") \in DOMAIN files
    /\ Len(last.output) = 2
    /\ fi = 2

\* C5: a pair that Failed in the previous execution has been attempted again
\* when the next execution completes, as long as its build is still a signed
\* entry of the device's type.
StillSigned(pair) ==
    \E k \in 1..Len(db) :
        /\ db[k].deviceECID = pair[1]
        /\ catalog.ok
        /\ db[k].deviceID \in DOMAIN catalog.devices
        /\ \E f \in Range(catalog.devices[db[k].deviceID].firmwares) :
                f.buildid = pair[2] /\ f.signed

C5_FailedIsRetried ==
    pc = "done" =>
        \A pair \in prev.failed :
            StillSigned(pair) => pair \in Pairs(TRUE) \cup Pairs(FALSE)

\* C6 as stated: an execution that completes after a completed one leaves
\* the table as the previous one left it.
C6_SecondRunIdentical ==
    (pc = "done" /\ prev.pc = "done") => db = prev.db

\* C6 amended: ... when no pair that Failed in the previous execution is
\* Saved in this one.
C6_SecondRunIdenticalUnlessRetrySaves ==
    (pc = "done" /\ prev.pc = "done" /\ Pairs(TRUE) \cap prev.failed = {})
        => db = prev.db

\* C6 witness: a second completed execution over a table that holds two
\* devices, one with a saved record, with a pair that failed both times.
C6_Witness ==
    /\ pc = "done" /\ prev.pc = "done"
    /\ Pairs(TRUE) \cap prev.failed = {}
    /\ prev.failed # {}
    /\ Len(db) = 2
    /\ \E k \in 1..Len(db) : db[k].blobsSaved # EmptyJSON
    /\ db = prev.db

\* The ECID a section of devices.ini gives.
SectionECID(section) == Concat(section.options["ecid"])

\* C7: import_new_devices leaves every stored row as it was, history
\* included, and inserts no row for an ECID the table already holds.
C7_ReimportIsNoOp ==
    [][pc = "import_new_devices"
         => /\ Len(db') >= Len(db)
            /\ \A k \in 1..Len(db) : db'[k] = db[k]
            /\ \A k \in (Len(db) + 1)..Len(db') : RowsOf(db, db'[k].deviceECID) = {}]_vars

\* C7 witness: an import has run over a file that names, under another
\* name, the ECID of a stored device with a saved record, and the row still
\* has its name and its record.
C7_Witness ==
    /\ pc = "check_all_devices"
    /\ \E k \in 1..Len(db) : \E a \in 1..Len(ini.sections) :
          /\ HasOption(ini.sections[a], "ecid")
          /\ SectionECID(ini.sections[a]) = db[k].deviceECID
          /\ ini.sections[a].name # db[k].deviceName
          /\ db[k].blobsSaved # EmptyJSON

\* C8: the table never holds two rows with one ECID, and of the candidates
\* of one import that share an ECID new to the table, the first in the file
\* is the one stored.
C8_OneRowPerECID ==
    [][/\ \A k \in 1..Len(db') : Cardinality(RowsOf(db', db'[k].deviceECID)) = 1
       /\ (pc = "import_new_devices" /\ pc' = "check_all_devices")
            => \A a \in 1..Len(ini.sections) :
                  (/\ RowsOf(db, SectionECID(ini.sections[a])) = {}
                   /\ \A b \in 1..(a - 1) :
                        SectionECID(ini.sections[b]) # SectionECID(ini.sections[a]))
                  => /\ RowsOf(db', SectionECID(ini.sections[a])) # {}
                     /\ find_one(db', SectionECID(ini.sections[a])).deviceName
                          = ini.sections[a].name]_vars

\* C8 witness: the first import read two sections with one ECID and two
\* names, and the table holds one row, named as the first section.
C8_Witness ==
    /\ pc = "check_all_devices"
    /\ prev.pc = "none"
    /\ Len(ini.sections) = 2
    /\ SectionECID(ini.sections[1]) = SectionECID(ini.sections[2])
    /\ ini.sections[1].name # ini.sections[2].name
    /\ Len(db) = 1
    /\ db[1].deviceName = ini.sections[1].name

\* build is the buildid of a signed entry of device type device_id in the
\* response the service gave.
SignedFor(device_id, build) ==
    /\ catalog.ok
    /\ device_id \in DOMAIN catalog.devices
    /\ \E f \in Range(catalog.devices[device_id].firmwares) : f.signed /\ f.buildid = build

\* C9: every tsschecker call of the execution, and every record appended to
\* a history since it was read from the table, names a build that is a signed
\* entry of the device's own type in the fetched catalog.
C9_OnlySignedOfOwnType ==
    /\ \A k \in 1..Len(calls) :
          SignedFor(find_one(db, calls[k].ecid).deviceID, calls[k].buildid)
    /\ \A k \in 1..Len(devices) :
          \A m \in (Len(find_one(db, devices[k].deviceECID).blobsSaved) + 1)
                      ..Len(devices[k].blobsSaved) :
              SignedFor(devices[k].deviceID, BuildIDs(devices[k].blobsSaved)[m])

\* C9 witness: an execution completed with calls for a phone and for a pad
\* while the phone's list held an unsigned entry, which was not called for.
C9_Witness ==
    /\ pc = "done"
    /\ \E k \in 1..Len(calls) : calls[k].deviceID = PhoneID /\ calls[k].saved
    /\ \E k \in 1..Len(calls) : calls[k].deviceID = PadID /\ calls[k].saved
    /\ \E f \in Range(catalog.devices[PhoneID].firmwares) :
          /\ ~f.signed
          /\ \A k \in 1..Len(calls) : calls[k].buildid # f.buildid

\* Positions of the signed entries of a source list, and the m-th of them.
SignedAt(source) == {k \in 1..Len(source) : source[k].signed}
NthSignedAt(source, m) ==
    CHOOSE k \in SignedAt(source) : Cardinality({x \in SignedAt(source) : x <= k}) = m

\* C10: once fetched, the firmware list of every device type of the response
\* is the subsequence of its signed entries: as many, and the m-th kept entry
\* is the m-th signed entry of the source.
C10_ExactlySignedSubsequence ==
    (catalog.ok /\ pc \notin {"start", "get_firmware_api", "exit"})
        => /\ DOMAIN live_firmware_api = DOMAIN catalog.devices
           /\ \A d \in DOMAIN catalog.devices :
                LET source == catalog.devices[d].firmwares
                    kept == live_firmware_api[d].firmwares
                IN  /\ Len(kept) = Cardinality(SignedAt(source))
                    /\ \A m \in 1..Len(kept) : kept[m] = source[NthSignedAt(source, m)]

\* C10 witness: a fetched list of two signed entries with different builds
\* is kept in order, beside a list that lost an unsigned entry.
C10_Witness ==
    /\ pc = "import_new_devices"
    /\ PadID \in DOMAIN catalog.devices
    /\ Len(live_firmware_api[PhoneID].firmwares) = 2
    /\ live_firmware_api[PhoneID].firmwares[1].buildid
          # live_firmware_api[PhoneID].firmwares[2].buildid
    /\ Len(catalog.devices[PadID].firmwares) = 2
    /\ Len(live_firmware_api[PadID].firmwares) = 1

\* The fatal conditions, read off what the execution is given: tsschecker is
\* not usable, the service gives no catalog, or devices.ini is there and one
\* of its sections cannot be read.
ToolUnusable ==
    \/ tool.path # "" /\ ~tool.isfile
    \/ ~tool.starts
    \/ tool.version < MinVersion

Malformed ==
    /\ ini.isfile
    /\ catalog.ok
    /\ \E k \in 1..Len(ini.sections) : SectionError(ini.sections[k], catalog.devices) # ""

ArchivePhases == {"check_all_devices", "loop", "push_to_database", "done"}

\* C11: when tsschecker is not usable, the catalog cannot be fetched or
\* devices.ini is malformed, the execution never comes to the archive loop
\* and tsschecker is never called to save blobs.
C11_FatalAbortsBeforeArchive ==
    (ToolUnusable \/ ~catalog.ok \/ Malformed)
        => (calls = <<>> /\ pc \notin ArchivePhases)

\* C11 witness: with a usable tsschecker and a fetched catalog that lists a
\* signed firmware for the phone, the import read a valid phone section and
\* then one it could not read, and the execution ended with no call made.
C11_Witness ==
    /\ pc = "raised"
    /\ ~ToolUnusable /\ catalog.ok /\ Malformed
    /\ Len(ini.sections) = 2
    /\ SectionError(ini.sections[1], catalog.devices) = ""
    /\ Identifier(ini.sections[1]) = PhoneID
    /\ live_firmware_api[PhoneID].firmwares # <<>>
    /\ calls = <<>>

\* C12: an execution that get_script_path ended (the -p path is no file,
\* tsschecker cannot be started, or its version is below 247) has done
\* nothing else and ends with a non-zero exit status.
C12_StartupFailureExitsNonZero ==
    pc = "exit"
        => /\ ToolUnusable
           /\ live_firmware_api = NoApi /\ devices = <<>> /\ calls = <<>>
           /\ ExitStatus # 0

\* p is a prefix of q.
IsPrefix(p, q) == Len(p) <= Len(q) /\ \A k \in 1..Len(p) : q[k] = p[k]

\* The decoded history of the row the table holds for ecid.
History(database, ecid) == loads(find_one(database, ecid).blobsSaved)

\* C13: no step removes a row of the table, and the history a row holds
\* after a step begins with the history it held before: records are only
\* added at the end. An ended execution therefore leaves, for every device
\* the previous one left, a history that begins with the one it had then.
C13_HistoryAppendOnly ==
    [][/\ \A k \in 1..Len(db) :
            /\ RowsOf(db', db[k].deviceECID) # {}
            /\ IsPrefix(History(db, db[k].deviceECID), History(db', db[k].deviceECID))
       /\ (pc \in Ended /\ prev.pc # "none")
            => \A k \in 1..Len(prev.db) :
                  /\ RowsOf(db, prev.db[k].deviceECID) # {}
                  /\ IsPrefix(History(prev.db, prev.db[k].deviceECID),
                              History(db, prev.db[k].deviceECID))]_vars

\* C13 witness: an execution that found a saved record in a device's history
\* has added a record for another build behind it and stored the result.
C13_Witness ==
    /\ pc = "done" /\ prev.pc = "done"
    /\ \E k \in 1..Len(prev.db) :
          /\ Len(History(prev.db, prev.db[k].deviceECID)) = 1
          /\ Len(History(db, prev.db[k].deviceECID)) = 2
          /\ History(db, prev.db[k].deviceECID)[1] = History(prev.db, prev.db[k].deviceECID)[1]
          /\ History(db, prev.db[k].deviceECID)[2].buildID
                # History(db, prev.db[k].deviceECID)[1].buildID

\* A step in which tsschecker was called and a captured line is the
\* confirmation line.
SavedCall ==
    /\ Len(calls') > Len(calls)
    /\ SavedMarker \in Range(last'.output)

\* C14: a call whose output holds the confirmation line adds one record
\* {releaseType 'release', versionNumber V, buildID B} at the end of the
\* device's history and changes no other device; when the execution stores
\* its snapshot the record of every such call is in the table; and an
\* execution that follows a completed one calls tsschecker for no pair the
\* table then held a record of.
C14_SavedIsRecordedOnce ==
    [][/\ SavedCall
            => /\ loads(devices'[di].blobsSaved)
                    = Append(loads(devices[di].blobsSaved),
                             [releaseType |-> "release",
                              versionNumber |-> Firmwares[fi].version,
                              buildID |-> Firmwares[fi].buildid])
               /\ Len(devices') = Len(devices)
               /\ \A k \in 1..Len(devices) : k # di => devices'[k] = devices[k]
               /\ db' = db
       /\ pc' = "done"
            => \A k \in 1..Len(calls') :
                  calls'[k].saved
                     => calls'[k].buildid \in Range(BuildIDs(find_one(db', calls'[k].ecid).blobsSaved))
       /\ prev'.pc = "done"
            => \A k \in 1..Len(calls') :
                  RowsOf(prev'.db, calls'[k].ecid) # {}
                     => calls'[k].buildid
                          \notin Range(BuildIDs(find_one(prev'.db, calls'[k].ecid).blobsSaved))]_vars

\* C14 witness: a second execution has completed against a catalog that
\* still lists, signed, a build the table held a record of for a device next
\* to another device, and tsschecker was called in it, but not for that pair.
C14_Witness ==
    /\ pc = "done" /\ prev.pc = "done"
    /\ Len(prev.db) = 2
    /\ calls # <<>>
    /\ \E k \in 1..Len(prev.db) :
          /\ Len(History(prev.db, prev.db[k].deviceECID)) = 1
          /\ History(prev.db, prev.db[k].deviceECID)[1].releaseType = "release"
          /\ SignedFor(prev.db[k].deviceID, History(prev.db, prev.db[k].deviceECID)[1].buildID)
          /\ History(prev.db, prev.db[k].deviceECID)[1].versionNumber
                = VersionOf(History(prev.db, prev.db[k].deviceECID)[1].buildID)
          /\ \A m \in 1..Len(calls) :
                calls[m].ecid = prev.db[k].deviceECID
                    => calls[m].buildid # History(prev.db, prev.db[k].deviceECID)[1].buildID

\* C15: an execution that passed get_script_path, the catalog fetch and the
\* reading of devices.ini does not end before push_to_database: whatever the
\* table holds, it ends completed, having visited every device, and never by
\* an exception.
C15_PassedFetchReachesPush ==
    (pc \in Ended /\ ~ToolUnusable /\ catalog.ok /\ ~Malformed)
        => (pc = "done" /\ di = Len(devices) + 1 /\ Len(devices) = Len(db))

\* C16: the tsschecker calls of one execution are for pairwise different
\* (device, buildID) pairs.
C16_OneCallPerPair ==
    \A a, b \in 1..Len(calls) :
        a # b => <<calls[a].ecid, calls[a].buildid>> # <<calls[b].ecid, calls[b].buildid>>

\* The step goes from one phase of the list to the next, stays in its phase,
\* ends the execution or starts a new one.
FollowsOrder(phases) ==
    \/ pc' = pc
    \/ pc' \in Ended \ {"done"}
    \/ pc \in Ended /\ pc' = phases[1]
    \/ pc = phases[Len(phases)] /\ pc' = "done"
    \/ \E k \in 1..(Len(phases) - 1) : pc = phases[k] /\ pc' = phases[k + 1]

\* The step inserts rows in the table: the work of import_new_devices.
Imports == Len(db') > Len(db)

\* C17 as stated: after the tsschecker check the phases run in the order
\* import, catalog fetch, archive loop, push; rows are inserted while the
\* catalog has not been fetched yet.
C17_ImportFetchArchivePersist ==
    [][/\ FollowsOrder(<<"start", "import_new_devices", "get_firmware_api",
                         "check_all_devices", "loop", "push_to_database">>)
       /\ Imports => live_firmware_api = NoApi]_vars

\* C17 amended: the phases run in the order catalog fetch, import, archive
\* loop, push. Rows are inserted only with the catalog fetched and before
\* any tsschecker call; a failed fetch ends the execution with the table
\* untouched; calls are made only in the loop, over the rows read after the
\* import; the table's histories are written only by the push that ends
\* the execution.
C17_FetchImportArchivePersist ==
    [][/\ FollowsOrder(<<"start", "get_firmware_api", "import_new_devices",
                         "check_all_devices", "loop", "push_to_database">>)
       /\ Imports
            => /\ catalog.ok /\ live_firmware_api = FilterSigned(catalog.devices)
               /\ calls = <<>> /\ devices = <<>>
       /\ (pc = "get_firmware_api" /\ ~catalog.ok) => (pc' = "raised" /\ db' = db)
       /\ Len(calls') > Len(calls) => (pc = "loop" /\ Len(devices) = Len(db))
       /\ (db' # db /\ ~Imports) => (pc = "push_to_database" /\ pc' = "done")]_vars

\* C17 witness: an execution has completed in which rows were inserted for
\* two devices whose types the fetched catalog lists, the board config of
\* one taken from that catalog, tsschecker was called and a record stored.
C17_Witness ==
    /\ pc = "done" /\ prev.pc = "none"
    /\ Len(db) = 2
    /\ \A k \in 1..Len(db) : db[k].deviceID \in DOMAIN live_firmware_api
    /\ \E k \in 1..Len(ini.sections) : BoardConfigOption(ini.sections[k]) = ""
    /\ calls # <<>>
    /\ \E k \in 1..Len(db) : db[k].blobsSaved # EmptyJSON

\* C18: from the start of an execution until its push_to_database has run,
\* every row the table held before the execution is as it was, and the rows
\* inserted by the import have an empty history, whatever has been archived
\* in self.devices meanwhile; so it is when the execution ends otherwise
\* than by completing.
C18_PersistenceDeferred ==
    pc # "done"
        => /\ Len(db) >= Len(prev.db)
           /\ \A k \in 1..Len(prev.db) : db[k] = prev.db[k]
           /\ \A k \in (Len(prev.db) + 1)..Len(db) : db[k].blobsSaved = EmptyJSON

\* C18 witness: an execution ended in the loop by an exception after a
\* record was appended in self.devices, and the table still holds the
\* history it held before.
C18_Witness ==
    /\ pc = "raised"
    /\ calls # <<>>
    /\ \E k \in 1..Len(devices) :
          /\ devices[k].blobsSaved # EmptyJSON
          /\ db[k].blobsSaved = EmptyJSON

\* The snapshot devices with the ECID of a row.
SnapshotOf(ecid) == {m \in 1..Len(devices) : devices[m].deviceECID = ecid}

\* Writing the snapshot a second time changes nothing.
PushIdempotent == (pc' = "done" /\ prev'.pc = "done") => db' = prev'.db

Unreadable(section) ==
    \/ "identifier" \notin DOMAIN section.options
    \/ "ecid" \notin DOMAIN section.options
    \/ /\ ("boardconfig" \notin DOMAIN section.options
            \/ Concat(section.options["boardconfig"]) = "")
       /\ RemoveSpaces(section.options["identifier"]) \notin DOMAIN live_firmware_api

\* C20: when a section of devices.ini cannot be read, import_new_devices
\* ends the execution by the exception and leaves the table as it was: no
\* candidate of the file is inserted, those before the section included.
C20_ImportAllOrNothing ==
    [][(pc = "import_new_devices" /\ \E k \in 1..Len(ini.sections) : Unreadable(ini.sections[k]))
         => (pc' = "raised" /\ db' = db)]_vars

\* C20 witness: the import ended by the exception of its second section, a
\* device type the catalog lacks with no board config given, over a table
\* that held a row, and the ECID of the valid first section is not stored.
C20_Witness ==
    /\ pc = "raised" /\ devices = <<>>
    /\ db # <<>>
    /\ Len(ini.sections) = 2
    /\ ~Unreadable(ini.sections[1])
    /\ RowsOf(db, SectionECID(ini.sections[1])) = {}
    /\ {"identifier", "ecid"} \subseteq DOMAIN ini.sections[2].options
    /\ Unreadable(ini.sections[2])

====
